---------------------------- MODULE Spec2Model ----------------------------
(* A model of the spaCy pipeline component spacy_readability.Readability:  *)
(* engine construction (__init__), the per-document collector (__call__),  *)
(* and the metric getters read through the Doc extension registry.         *)
EXTENDS Integers, Sequences, FiniteSets, TLC

VARIABLES engines, doc_extensions, ctor, doc, doc_engine, totals, tokens, result

vars == <<engines, doc_extensions, ctor, doc, doc_engine, totals, tokens, result>>

(***************************************************************************)
(* Bounds of the model.                                                    *)
(***************************************************************************)
MaxEngines == 2
MaxReps == 31
MaxStart == 1
MaxStride == 2
SqrtScale == 100

(***************************************************************************)
(* Python values.  An attribute that may be None is a sequence of length   *)
(* at most one: <<>> is None and <<v>> is the value v.  A raised exception *)
(* is a record naming it.                                                  *)
(***************************************************************************)
None == <<>>
Some(v) == <<v>>
ZeroDivisionError == [raised |-> "ZeroDivisionError"]
AttributeError == [raised |-> "AttributeError"]
NoValue == [raised |-> ""]

(***************************************************************************)
(* Exact rational arithmetic standing for Python's float arithmetic: a     *)
(* number is [num, den] with den > 0 in lowest terms; a division by zero   *)
(* yields ZeroDivisionError, which every later operation propagates.       *)
(***************************************************************************)
Abs(n) == IF n < 0 THEN 0 - n ELSE n

RECURSIVE Gcd(_, _)
Gcd(a, b) == IF b = 0 THEN a ELSE Gcd(b, a % b)

Norm(n, d) ==
    LET g == Gcd(Abs(n), d)
    IN  [num |-> n \div g, den |-> d \div g]

Num(n) == [num |-> n, den |-> 1]

Dec(n, d) == Norm(n, d)

IsErr(a) == "raised" \in DOMAIN a

Add(a, b) ==
    IF IsErr(a) \/ IsErr(b) THEN ZeroDivisionError
    ELSE LET g == Gcd(a.den, b.den)
             l == (a.den \div g) * b.den
         IN  Norm(a.num * (l \div a.den) + b.num * (l \div b.den), l)

Neg(a) == IF IsErr(a) THEN ZeroDivisionError ELSE [num |-> 0 - a.num, den |-> a.den]

Sub(a, b) == Add(a, Neg(b))

Mul(a, b) ==
    IF IsErr(a) \/ IsErr(b) THEN ZeroDivisionError
    ELSE LET g1 == Gcd(Abs(a.num), b.den)
             g2 == Gcd(Abs(b.num), a.den)
         IN  Norm((a.num \div g1) * (b.num \div g2), (a.den \div g2) * (b.den \div g1))

Div(a, b) ==
    IF IsErr(a) \/ IsErr(b) THEN ZeroDivisionError
    ELSE IF b.num = 0 THEN ZeroDivisionError
    ELSE IF b.num > 0 THEN Mul(a, [num |-> b.den, den |-> b.num])
    ELSE Mul(a, [num |-> 0 - b.den, den |-> 0 - b.num])

Gt(a, b) == a.num * b.den > b.num * a.den

RECURSIVE ISqrtFrom(_, _, _)
ISqrtFrom(n, lo, hi) ==
    IF lo >= hi THEN lo
    ELSE LET mid == (lo + hi + 1) \div 2
         IN  IF mid * mid <= n THEN ISqrtFrom(n, mid, hi) ELSE ISqrtFrom(n, lo, mid - 1)

ISqrt(n) == ISqrtFrom(n, 0, IF n < 40000 THEN n ELSE 40000)

\* math.sqrt, rounded down to a multiple of 1/SqrtScale
sqrt(a) ==
    IF IsErr(a) THEN ZeroDivisionError
    ELSE Norm(ISqrt((a.num * SqrtScale * SqrtScale) \div a.den), SqrtScale)

(***************************************************************************)
(* measure_parameters.py                                                   *)
(***************************************************************************)
MEASURE_PARAMETERS ==
    [ en |->
        [ flesch_kincaid_grade_level |->
            [base |-> Dec(1559, 100), asl |-> Dec(39, 100), asw |-> Dec(118, 10)],
          flesch_kincaid_reading_ease |->
            [base |-> Dec(206835, 1000), asl |-> Dec(1015, 1000), asw |-> Dec(846, 10)],
          dale_chall |->
            [pdw |-> Dec(1579, 10000), asl |-> Dec(496, 10000)],
          smog |->
            [mult |-> Dec(10430, 10000), base |-> Dec(31291, 10000)],
          coleman_liau_index |->
            [l |-> Dec(588, 10000), s |-> Dec(296, 1000), base |-> Dec(158, 10)],
          automated_readability_index |->
            [alw |-> Dec(471, 100), asw |-> Dec(5, 10), base |-> Dec(2143, 100)],
          forcast |->
            [base |-> Num(20), w |-> Num(10)],
          gunning_fog_index |->
            [mult |-> Dec(4, 10)] ],
      de |->
        [ flesch_kincaid_reading_ease |->
            [base |-> Num(180), asl |-> Num(1), asw |-> Dec(585, 10)] ] ]

MetricNames == DOMAIN MEASURE_PARAMETERS["en"]

(***************************************************************************)
(* Tokens.  A token is named by its text; its characters, lemma and        *)
(* syllable split come from the tokenizer and the syllable splitter.       *)
(***************************************************************************)
Chars(word) ==
    CASE word = "I"         -> <<"I">>
      [] word = "contain"   -> <<"c", "o", "n", "t", "a", "i", "n">>
      [] word = "four"      -> <<"f", "o", "u", "r">>
      [] word = "Words"     -> <<"W", "o", "r", "d", "s">>
      [] word = "calculate" -> <<"c", "a", "l", "c", "u", "l", "a", "t", "e">>
      [] word = "."         -> <<".">>
      [] word = "#"         -> <<"#">>
      [] word = "42"        -> <<"4", "2">>
      [] word = "$"         -> <<"$">>

Lemma(word) ==
    CASE word = "I"     -> <<"-", "P", "R", "O", "N", "-">>
      [] word = "Words" -> <<"w", "o", "r", "d">>
      [] OTHER          -> Chars(word)

Hyphenation(word) ==
    CASE word = "I"         -> <<"i">>
      [] word = "contain"   -> <<"con", "tain">>
      [] word = "four"      -> <<"four">>
      [] word = "Words"     -> <<"words">>
      [] word = "calculate" -> <<"cal", "cu", "late">>

Vocabulary == {"I", "contain", "four", "Words", "calculate", ".", "#", "42", "$"}

UpperCase == {"I", "P", "R", "O", "N", "W"}
LowerCase == {"a", "c", "d", "e", "f", "i", "l", "n", "o", "p", "r", "s", "t", "u", "w"}
Digits == {"4", "2"}
Punctuation == {".", "#", "-"}

lower_char(c) ==
    CASE c = "I" -> "i" [] c = "P" -> "p" [] c = "R" -> "r"
      [] c = "O" -> "o" [] c = "N" -> "n" [] c = "W" -> "w"
      [] OTHER -> c

\* str.lower
lower(text) == [i \in 1..Len(text) |-> lower_char(text[i])]

\* str.isalpha
isalpha(text) == Len(text) > 0 /\ \A i \in 1..Len(text) : text[i] \in UpperCase \cup LowerCase

\* the tokens whose every character is punctuation
PunctTokens ==
    {w \in Vocabulary : \A i \in 1..Len(Chars(w)) : Chars(w)[i] \in Punctuation}

\* the tokens that str.isdigit accepts
DigitTokens ==
    {w \in Vocabulary : Len(Chars(w)) > 0 /\ \A i \in 1..Len(Chars(w)) : Chars(w)[i] \in Digits}

\* Token.is_punct
is_punct(word) == word \in PunctTokens

\* Token.is_digit
is_digit(word) == word \in DigitTokens

\* SpacySyllables.syllables: the split of an alphabetic word, else None
syllables(word) == IF isalpha(Chars(word)) THEN Some(Hyphenation(word)) ELSE None

\* words.py: the easy-word lexicon, lower-cased
DALE_CHALL_WORDS ==
    { <<"i">>, <<"f", "o", "u", "r">>, <<"w", "o", "r", "d">>,
      <<"c", "o", "n", "t", "a", "i", "n">> }

(***************************************************************************)
(* Documents: a sequence of sentences, each a sequence of tokens.  The     *)
(* documents analysed are a body sentence repeated, then an optional tail. *)
(***************************************************************************)
Sentence(name) ==
    CASE name = "one"    -> <<"I">>
      [] name = "hard"   -> <<"calculate">>
      [] name = "hash"   -> <<"#">>
      [] name = "five"   -> <<"I", "contain", "four", "Words", "calculate", ".">>
      [] name = "four"   -> <<"I", "contain", "four", "Words", ".">>
      [] name = "symbol" -> <<"42", "$", ".">>

Bodies == {"one", "hard", "hash", "five", "symbol"}
Tails == {"hard", "hash", "four"}
RepChoices == {0, 1}
LargeRepChoices == {0, 1, 19, 29, 30, MaxReps}

Repeat(s, n) == [i \in 1..n |-> s]

MakeDoc(body, reps, tail) ==
    Repeat(Sentence(body), reps) \o (IF tail = "" THEN <<>> ELSE <<Sentence(tail)>>)

(***************************************************************************)
(* Readability.__init__                                                    *)
(***************************************************************************)
Languages == {"en", "de", "fr"}
RequestedSets == { {}, {"dale_chall", "nonexistent_metric"} }
MeasuresArgs == {None} \cup {Some(m) : m \in RequestedSets}
TotalNames == {"total_sentences", "total_words", "total_syllables", "total_letters"}

\* "if measures:" -- None and the empty collection are both false
truthy(measures) == measures # None /\ measures[1] # {}

\* lines 48-51, for a lang that MEASURE_PARAMETERS has
init_measures(lang, measures) ==
    IF truthy(measures)
    THEN [metric \in (DOMAIN MEASURE_PARAMETERS[lang]) \cap measures[1]
            |-> MEASURE_PARAMETERS[lang][metric]]
    ELSE MEASURE_PARAMETERS[lang]

\* Doc.has_extension
has_extension(exts, name) == name \in DOMAIN exts

\* lines 58-60: a metric is bound to this instance only if no getter exists yet
bind_getter(exts, metric, self_index) ==
    IF ~has_extension(exts, metric) THEN self_index ELSE exts[metric]

\* lines 53-60: the Doc extension registry after this instance registered
set_extensions(exts, measures, self_index) ==
    [name \in (DOMAIN exts) \cup TotalNames \cup (DOMAIN measures) |->
        IF name \in TotalNames THEN 0
        ELSE IF name \in DOMAIN measures THEN bind_getter(exts, name, self_index)
        ELSE exts[name]]

__init__(lang, measures) ==
    /\ Len(engines) < MaxEngines
    /\ IF lang \notin DOMAIN MEASURE_PARAMETERS
       THEN /\ ctor' = [lang |-> lang, measures |-> measures, raised |-> "KeyError"]
            /\ UNCHANGED <<engines, doc_extensions>>
       ELSE LET self == [lang |-> lang, measures |-> init_measures(lang, measures)]
            IN  /\ engines' = Append(engines, self)
                /\ doc_extensions' =
                      set_extensions(doc_extensions, self.measures, Len(engines) + 1)
                /\ ctor' = [lang |-> lang, measures |-> measures, raised |-> ""]
    /\ UNCHANGED <<doc, doc_engine, totals, tokens, result>>

(***************************************************************************)
(* Readability.__call__                                                    *)
(***************************************************************************)
\* the filter without its numeric test
is_word_any_non_punct(token) == ~is_punct(token)

\* line 71
is_word(token) == ~is_punct(token) /\ ~is_digit(token)

\* the annotations when letters_count is set only next to the syllables
annotate_letters_with_syllables(token) ==
    LET syl == syllables(token)
    IN  IF syl # None /\ syl[1] # <<>>
        THEN [letters_count |-> Some(Len(Chars(token))), syllables |-> syl,
              syllables_count |-> Some(Len(syl[1]))]
        ELSE [letters_count |-> None, syllables |-> None, syllables_count |-> None]

\* lines 73-79: the annotations of one countable token
annotate(token) ==
    LET syl == syllables(token)
    IN  IF syl # None /\ syl[1] # <<>>
        THEN [letters_count |-> Some(Len(Chars(token))), syllables |-> syl,
              syllables_count |-> Some(Len(syl[1]))]
        ELSE [letters_count |-> Some(Len(Chars(token))), syllables |-> None,
              syllables_count |-> None]

Unset == [letters_count |-> None, syllables |-> None, syllables_count |-> None]

\* lines 70-79: what one token of the inner loop adds to the totals
call_token(token) ==
    IF is_word(token)
    THEN LET a == annotate(token)
         IN  [total_words |-> 1,
              total_letters |-> Len(Chars(token)),
              total_syllables |->
                  IF a.syllables_count # None THEN a.syllables_count[1] ELSE 0,
              u |-> a]
    ELSE [total_words |-> 0, total_letters |-> 0, total_syllables |-> 0, u |-> Unset]

\* the sum f[lo] + ... + f[hi]
RECURSIVE SumRange(_, _, _)
SumRange(f, lo, hi) ==
    IF lo > hi THEN 0
    ELSE IF lo = hi THEN f[lo]
    ELSE LET mid == (lo + hi) \div 2
         IN  SumRange(f, lo, mid) + SumRange(f, mid + 1, hi)

SumOver(f) == SumRange(f, 1, Len(f))

\* the tokens of sentences lo..hi, in order ("for sent in doc.sents: for token in sent")
RECURSIVE FlattenRange(_, _, _)
FlattenRange(sents, lo, hi) ==
    IF lo > hi THEN <<>>
    ELSE IF lo = hi THEN sents[lo]
    ELSE LET mid == (lo + hi) \div 2
         IN  FlattenRange(sents, lo, mid) \o FlattenRange(sents, mid + 1, hi)

Flatten(sents) == FlattenRange(sents, 1, Len(sents))

\* lines 63-84
__call__(d) ==
    LET token == Flatten(d)
        step == [i \in 1..Len(token) |-> call_token(token[i])]
    IN  [total_sentences |-> Len(d),
         total_words |-> SumOver([i \in 1..Len(token) |-> step[i].total_words]),
         total_syllables |-> SumOver([i \in 1..Len(token) |-> step[i].total_syllables]),
         total_letters |-> SumOver([i \in 1..Len(token) |-> step[i].total_letters]),
         tokens |-> [i \in 1..Len(token) |-> step[i].u]]

(***************************************************************************)
(* The metric getters.  d is the processed document: d.token is its token  *)
(* sequence, d.u the token extensions and d.total_* the Doc extensions.    *)
(***************************************************************************)
sample_size == 150

\* lines 207-215
_get_num_syllables(d, min_syllables) ==
    SumOver([i \in 1..Len(d.token) |->
                IF /\ d.u[i].syllables_count # None
                   /\ d.u[i].syllables_count[1] # 0
                   /\ d.u[i].syllables_count[1] >= min_syllables
                THEN d.u[i].syllables_count[1] ELSE 0])

\* lines 86-99
flesch_kincaid_grade_level(self, d) ==
    LET params == self.measures["flesch_kincaid_grade_level"]
        num_sentences == Num(d.total_sentences)
        num_words == Num(d.total_words)
        num_syllables == Num(d.total_syllables)
    IN  IF d.total_sentences = 0 \/ d.total_words = 0 \/ d.total_syllables = 0
        THEN Num(0)
        ELSE Sub(Add(Div(Mul(params.asw, num_syllables), num_words),
                     Div(Mul(params.asl, num_words), num_sentences)),
                 params.base)

\* lines 101-112
flesch_kincaid_reading_ease(self, d) ==
    LET params == self.measures["flesch_kincaid_reading_ease"]
        num_sentences == Num(d.total_sentences)
        num_words == Num(d.total_words)
        num_syllables == Num(d.total_syllables)
        words_per_sent == Div(num_words, num_sentences)
        syllables_per_word == Div(num_syllables, num_words)
    IN  IF d.total_sentences = 0 \/ d.total_words = 0 \/ d.total_syllables = 0
        THEN Num(0)
        ELSE Sub(Sub(params.base, Mul(params.asl, words_per_sent)),
                 Mul(params.asw, syllables_per_word))

\* lines 122-127
is_difficult(word) ==
    /\ ~is_punct(word)
    /\ ~is_digit(word)
    /\ lower(Chars(word)) \notin DALE_CHALL_WORDS
    /\ lower(Lemma(word)) \notin DALE_CHALL_WORDS

DifficultTokens == {w \in Vocabulary : is_difficult(w)}

\* the adjustment test with >= in place of >
needs_adjustment_inclusive(percent_difficult_words) ==
    ~Gt(Num(5), percent_difficult_words)

\* lines 133-135
needs_adjustment(percent_difficult_words) == Gt(percent_difficult_words, Num(5))

\* lines 114-136
dale_chall(self, d) ==
    LET params == self.measures["dale_chall"]
        num_sentences == Num(d.total_sentences)
        num_words == Num(d.total_words)
        diff_words_count == Cardinality({i \in 1..Len(d.token) : d.token[i] \in DifficultTokens})
        percent_difficult_words == Div(Mul(Num(100), Num(diff_words_count)), num_words)
        average_sentence_length == Div(num_words, num_sentences)
        grade == Add(Mul(params.pdw, percent_difficult_words),
                     Mul(params.asl, average_sentence_length))
    IN  IF d.total_sentences = 0 \/ d.total_words = 0
        THEN Num(0)
        ELSE IF needs_adjustment(percent_difficult_words)
        THEN Add(grade, Dec(36365, 10000))
        ELSE grade

\* the guard without its test of the word count
smog_guard_sentences_only(num_sentences, num_words) == num_sentences < 30

\* the guard with <= in place of <
smog_guard_inclusive(num_sentences, num_words) == num_sentences <= 30 \/ num_words = 0

\* line 145
smog_guard(num_sentences, num_words) == num_sentences < 30 \/ num_words = 0

\* lines 138-148
smog(self, d) ==
    LET params == self.measures["smog"]
        num_poly == _get_num_syllables(d, 3)
    IN  IF smog_guard(d.total_sentences, d.total_words)
        THEN Num(0)
        ELSE Add(Mul(params.mult,
                     sqrt(Div(Mul(Num(num_poly), Num(30)), Num(d.total_sentences)))),
                 params.base)

\* lines 150-163
coleman_liau_index(self, d) ==
    LET params == self.measures["coleman_liau_index"]
        num_words == Num(d.total_words)
        num_sentences == Num(d.total_sentences)
        letter_count == Num(d.total_letters)
        letters_to_words == Mul(Div(letter_count, num_words), Num(100))
        sent_to_words == Mul(Div(num_sentences, num_words), Num(100))
    IN  IF d.total_words <= 0 THEN Num(0)
        ELSE IF d.total_letters <= 0 THEN Num(0)
        ELSE Sub(Sub(Mul(params.l, letters_to_words), Mul(params.s, sent_to_words)),
                 params.base)

\* lines 165-177
automated_readability_index(self, d) ==
    LET params == self.measures["automated_readability_index"]
        num_sentences == Num(d.total_sentences)
        num_words == Num(d.total_words)
        letter_count == Num(d.total_letters)
        letter_to_words == Div(letter_count, num_words)
        words_to_sents == Div(num_words, num_sentences)
    IN  IF d.total_words <= 0 THEN Num(0)
        ELSE Sub(Add(Mul(params.alw, letter_to_words), Mul(params.asw, words_to_sents)),
                 params.base)

\* numpy.random.choice(a, size, replace=True): size indices in 0..a-1
random_sample(a, size, start, stride) ==
    [k \in 1..size |-> (start + (k - 1) * stride) % a]

\* line 185
eligible_words(d) == SelectSeq([i \in 1..Len(d.token) |-> i],
                               LAMBDA i : ~is_punct(d.token[i]) /\ ~is_digit(d.token[i]))

\* the guard with <= in place of <
forcast_guard_inclusive(num_words) == num_words <= 150

\* line 186
forcast_guard(num_words) == num_words < 150

\* lines 179-190: the value, and the indices drawn to compute it
forcast(self, d, start, stride) ==
    LET params == self.measures["forcast"]
        num_words == d.total_words
        eligible == eligible_words(d)
        draws == random_sample(num_words, sample_size, start, stride)
        mono_syllabic == Cardinality({k \in 1..Len(draws) :
                            d.u[eligible[draws[k] + 1]].syllables_count = Some(1)})
    IN  IF forcast_guard(num_words)
        THEN [value |-> Num(0), draws |-> <<>>]
        ELSE IF \E k \in 1..Len(draws) : draws[k] + 1 > Len(eligible)
        THEN [value |-> [raised |-> "IndexError"], draws |-> draws]
        ELSE [value |-> Sub(params.base, Div(Num(mono_syllabic), params.w)),
              draws |-> draws]

\* lines 198-202
is_complex(d, i) ==
    /\ ~is_punct(d.token[i])
    /\ ~is_digit(d.token[i])
    /\ d.u[i].syllables_count # None
    /\ d.u[i].syllables_count[1] # 0
    /\ d.u[i].syllables_count[1] >= 3

\* lines 192-204
gunning_fog_index(self, d) ==
    LET params == self.measures["gunning_fog_index"]
        words_to_sents == Div(Num(d.total_words), Num(d.total_sentences))
        complex_words == Cardinality({i \in 1..Len(d.token) : is_complex(d, i)})
        complex_words_proportion == Div(Num(complex_words), Num(d.total_words))
    IN  Mul(params.mult, Add(words_to_sents, Mul(Num(100), complex_words_proportion)))

\* getattr(self, metric), for the metrics that draw no sample
getter(metric, self, d) ==
    CASE metric = "flesch_kincaid_grade_level"  -> flesch_kincaid_grade_level(self, d)
      [] metric = "flesch_kincaid_reading_ease" -> flesch_kincaid_reading_ease(self, d)
      [] metric = "dale_chall"                  -> dale_chall(self, d)
      [] metric = "smog"                        -> smog(self, d)
      [] metric = "coleman_liau_index"          -> coleman_liau_index(self, d)
      [] metric = "automated_readability_index" -> automated_readability_index(self, d)
      [] metric = "gunning_fog_index"           -> gunning_fog_index(self, d)

(***************************************************************************)
(* The state machine.                                                      *)
(***************************************************************************)
NoTotals == [total_sentences |-> 0, total_words |-> 0, total_syllables |-> 0,
             total_letters |-> 0]

NoResult == [metric |-> "", value |-> NoValue, draws |-> <<>>, self |-> 0]

NoCtor == [lang |-> "", measures |-> None, raised |-> ""]

Init ==
    /\ engines = <<>>
    /\ doc_extensions = <<>>
    /\ ctor = NoCtor
    /\ doc = <<>>
    /\ doc_engine = 0
    /\ totals = NoTotals
    /\ tokens = <<>>
    /\ result = NoResult

Construct == \E lang \in Languages, measures \in MeasuresArgs : __init__(lang, measures)

\* the documents of the model, each with what __call__ computes for it
Analysed ==
    [body \in Bodies, reps \in RepChoices \cup LargeRepChoices, tail \in Tails \cup {""} |->
        LET d == MakeDoc(body, reps, tail)
        IN  [doc |-> d, r |-> __call__(d)]]

\* nlp(text) on the pipeline that holds engine e: tokenize, then __call__
pipe(e, body, reps, tail) ==
    LET a == Analysed[body, reps, tail]
    IN  /\ doc' = a.doc
        /\ doc_engine' = e
        /\ totals' = [name \in TotalNames |-> a.r[name]]
        /\ tokens' = a.r.tokens
        /\ result' = NoResult
        /\ UNCHANGED <<engines, doc_extensions, ctor>>

Analyze ==
    \E e \in 1..Len(engines), body \in Bodies, reps \in RepChoices, tail \in Tails \cup {""} :
        pipe(e, body, reps, tail)

AnalyzeLarge ==
    \E e \in 1..Len(engines), body \in Bodies, reps \in LargeRepChoices,
       tail \in Tails \cup {""} :
        pipe(e, body, reps, tail)

Processed ==
    [token |-> Flatten(doc), u |-> tokens,
     total_sentences |-> totals.total_sentences, total_words |-> totals.total_words,
     total_syllables |-> totals.total_syllables, total_letters |-> totals.total_letters]

\* doc._.<metric>: the getter registered under the name, bound to its instance
Read ==
    \E metric \in (MetricNames \ {"forcast"}) \cup {"nonexistent_metric"} :
        /\ doc_engine # 0
        /\ IF has_extension(doc_extensions, metric)
           THEN result' = [metric |-> metric,
                           value |-> getter(metric, engines[doc_extensions[metric]], Processed),
                           draws |-> <<>>, self |-> doc_extensions[metric]]
           ELSE result' = [metric |-> metric, value |-> AttributeError, draws |-> <<>>,
                           self |-> 0]
        /\ UNCHANGED <<engines, doc_extensions, ctor, doc, doc_engine, totals, tokens>>

ReadForcast ==
    \E start \in 0..MaxStart, stride \in 1..MaxStride :
        /\ doc_engine # 0
        /\ IF has_extension(doc_extensions, "forcast")
           THEN LET r == forcast(engines[doc_extensions["forcast"]], Processed, start, stride)
                IN  result' = [metric |-> "forcast", value |-> r.value, draws |-> r.draws,
                               self |-> doc_extensions["forcast"]]
           ELSE result' = [metric |-> "forcast", value |-> AttributeError, draws |-> <<>>,
                           self |-> 0]
        /\ UNCHANGED <<engines, doc_extensions, ctor, doc, doc_engine, totals, tokens>>

Next == Construct \/ Analyze \/ Read \/ ReadForcast

Spec == Init /\ [][Next]_vars

(***************************************************************************)
(* Long documents, analysed by one English engine built with the default   *)
(* arguments: Readability(nlp).                                            *)
(***************************************************************************)
InitLarge ==
    /\ engines = <<[lang |-> "en", measures |-> init_measures("en", None)]>>
    /\ doc_extensions = set_extensions(<<>>, init_measures("en", None), 1)
    /\ ctor = [lang |-> "en", measures |-> None, raised |-> ""]
    /\ doc = <<>>
    /\ doc_engine = 0
    /\ totals = NoTotals
    /\ tokens = <<>>
    /\ result = NoResult

NextLarge == AnalyzeLarge \/ Read \/ ReadForcast

SpecLarge == InitLarge /\ [][NextLarge]_vars

(***************************************************************************)
(* Properties.                                                             *)
(***************************************************************************)
Analysed_ == doc_engine # 0
Countable(token) == {i \in 1..Len(token) : ~is_punct(token[i]) /\ ~is_digit(token[i])}
ZeroGuarded == {"flesch_kincaid_grade_level", "flesch_kincaid_reading_ease", "dale_chall",
                "smog", "coleman_liau_index", "automated_readability_index", "forcast"}
Positive(a) == ~IsErr(a) /\ a.num > 0

\* C1: after __call__ has processed a document, total_words is the number of
\* tokens that are neither punctuation nor numeric, and total_syllables is the
\* sum of syllables_count over the tokens that carry one; tokens failing the
\* filter and countable tokens with an empty syllable split carry none.
AggregateConsistency ==
    Analysed_ =>
        LET token == Flatten(doc)
            countable == Countable(token)
        IN  /\ Len(tokens) = Len(token)
            /\ totals.total_words = Cardinality(countable)
            /\ totals.total_syllables =
                  SumOver([i \in 1..Len(token) |->
                             IF tokens[i].syllables_count # None
                             THEN tokens[i].syllables_count[1] ELSE 0])
            /\ \A i \in 1..Len(token) :
                  IF i \in countable /\ isalpha(Chars(token[i]))
                  THEN tokens[i].syllables_count = Some(Len(Hyphenation(token[i])))
                  ELSE tokens[i].syllables_count = None

\* C1 witness: a processed document holding a number, a symbol without
\* syllables, punctuation and syllabified words.
AggregateConsistencyWitness ==
    /\ Analysed_
    /\ doc = <<Sentence("symbol"), Sentence("four")>>
    /\ totals.total_words = 5
    /\ totals.total_syllables = 5

\* C2: on a document with no sentence or no countable word, each of the seven
\* zero-guarded metrics returns 0 and raises no arithmetic fault.
DegenerateFloor ==
    ( /\ result.metric \in ZeroGuarded
      /\ result.self # 0
      /\ (totals.total_sentences = 0 \/ totals.total_words = 0) )
    => result.value = Num(0)

\* C2 witness: smog read from a document of 30 punctuation-only sentences.
DegenerateFloorWitness ==
    /\ result.metric = "smog"
    /\ totals.total_sentences >= 30
    /\ totals.total_words = 0
    /\ result.value = Num(0)

\* C3: on a document with no countable word, gunning_fog_index reads as 0.
GunningFogZero ==
    (result.metric = "gunning_fog_index" /\ totals.total_words = 0)
    => result.value = Num(0)

\* C4: an engine constructed for a supported language with a requested set of
\* metrics (the empty set included) has as active set exactly the intersection of
\* the requested set with the metrics registered for the language.
SelectorIntersection ==
    (ctor.lang \in DOMAIN MEASURE_PARAMETERS /\ ctor.measures # None)
    => /\ ctor.raised = ""
       /\ DOMAIN engines[Len(engines)].measures =
             ctor.measures[1] \cap DOMAIN MEASURE_PARAMETERS[ctor.lang]

\* C5: constructing the engine for a language without an entry in
\* MEASURE_PARAMETERS raises no error and yields an engine with no active metric.
UnknownLanguageEmpty ==
    (ctor.lang # "" /\ ctor.lang \notin DOMAIN MEASURE_PARAMETERS)
    => /\ ctor.raised = ""
       /\ Len(engines) > 0
       /\ DOMAIN engines[Len(engines)].measures = {}

\* C6: a metric of the active set of the engine that processed a document, read
\* from that document, is computed with the coefficients of that engine,
\* whatever engines were constructed before it.
OwnCoefficients ==
    ( /\ Analysed_
      /\ result.metric \in MetricNames \ {"forcast"}
      /\ result.metric \in DOMAIN engines[doc_engine].measures )
    => result.value = getter(result.metric, engines[doc_engine], Processed)

\* C7 as stated: smog is 0 below 30 sentences and strictly positive from 30
\* sentences on.
SmogFloorAsStated ==
    result.metric = "smog" =>
        IF totals.total_sentences < 30
        THEN result.value = Num(0)
        ELSE Positive(result.value)

\* C7 amended: smog is 0 below 30 sentences and for a document without
\* countable words; from 30 sentences on, with at least one countable word,
\* it is strictly positive.
SmogFloor ==
    result.metric = "smog" =>
        IF totals.total_sentences < 30 \/ totals.total_words = 0
        THEN result.value = Num(0)
        ELSE Positive(result.value)

\* C7 witness: smog read from a document of exactly 30 sentences with words.
SmogFloorWitness ==
    /\ result.metric = "smog"
    /\ totals.total_sentences = 30
    /\ totals.total_words > 0
    /\ Positive(result.value)

\* C8: forcast is 0 and draws nothing below 150 countable words; from 150 on it
\* draws exactly 150 indices, each a position of the list of countable tokens,
\* whose length is total_words.
ForcastFloor ==
    result.metric = "forcast" =>
        IF totals.total_words < 150
        THEN result.value = Num(0) /\ result.draws = <<>>
        ELSE LET positions == Cardinality(Countable(Flatten(doc)))
             IN  /\ Len(result.draws) = 150
                 /\ positions = totals.total_words
                 /\ \A k \in 1..Len(result.draws) : result.draws[k] \in 0..(positions - 1)
                 /\ ~IsErr(result.value)

\* C8 witness: forcast read from a document of more than 150 countable words.
ForcastFloorWitness ==
    /\ result.metric = "forcast"
    /\ totals.total_words > 150
    /\ Len(result.draws) = 150
    /\ \E k \in 1..Len(result.draws) : result.draws[k] > 75

\* the Dale-Chall grade before the adjustment, from the counts
DaleChallBase_(difficult) ==
    Add(Div(Num(1579 * difficult), Num(100 * totals.total_words)),
        Div(Num(496 * totals.total_words), Num(10000 * totals.total_sentences)))

Difficult_ ==
    LET token == Flatten(doc)
    IN  Cardinality({i \in Countable(token) :
                        /\ lower(Chars(token[i])) \notin DALE_CHALL_WORDS
                        /\ lower(Lemma(token[i])) \notin DALE_CHALL_WORDS})

\* C9: dale_chall adds 3.6365 exactly when 100 * difficult / total_words is
\* strictly greater than 5, difficult counting the countable tokens whose
\* lowercased text and lowercased lemma are both absent from the lexicon.
DaleChallBoundary ==
    (result.metric = "dale_chall" /\ totals.total_words > 0) =>
        LET difficult == Difficult_
        IN  result.value =
                IF 100 * difficult > 5 * totals.total_words
                THEN Add(DaleChallBase_(difficult), Dec(36365, 10000))
                ELSE DaleChallBase_(difficult)

\* C9 witness: dale_chall read from a document with exactly one difficult word
\* in twenty, which gets no adjustment.
DaleChallBoundaryWitness ==
    /\ result.metric = "dale_chall"
    /\ totals.total_words = 20
    /\ Difficult_ = 1
    /\ result.value = DaleChallBase_(1)

\* C10: after __call__, total_words > 0 implies total_sentences > 0 and
\* total_letters >= total_words; every countable token has letters_count equal
\* to the length of its text and is included in total_letters; so
\* automated_readability_index and coleman_liau_index never divide by zero.
LettersCoverWords ==
    Analysed_ =>
        LET token == Flatten(doc)
            countable == Countable(token)
        IN  /\ totals.total_words > 0 =>
                  totals.total_sentences > 0 /\ totals.total_letters >= totals.total_words
            /\ \A i \in countable : tokens[i].letters_count = Some(Len(Chars(token[i])))
            /\ totals.total_letters =
                  SumOver([i \in 1..Len(token) |->
                             IF i \in countable THEN Len(Chars(token[i])) ELSE 0])
            /\ result.metric \in {"automated_readability_index", "coleman_liau_index"}
                  => ~IsErr(result.value)

\* C10 witness: automated_readability_index computed for a document whose only
\* countable word has no syllables.
LettersCoverWordsWitness ==
    /\ result.metric = "automated_readability_index"
    /\ totals.total_words = 1
    /\ totals.total_syllables = 0
    /\ totals.total_letters = 1
    /\ Positive(Neg(result.value))

=============================================================================
